---- MODULE Spec2Model ----
(***************************************************************************)
(* epysurv.simulation.point_source.simulate_outbreaks                      *)
(*                                                                         *)
(* The function marshals its arguments, calls sim_pointSource of the R     *)
(* package surveillance, turns the returned R list into a data frame,      *)
(* stamps it with a weekly index, renames two columns and derives          *)
(* n_outbreak_cases.                                                       *)
(*                                                                         *)
(* Probabilities are integers in percent (100 is probability 1).  Dates    *)
(* are day numbers counted from the first index entry.  The engine's       *)
(* random draws are a nondeterministic choice: the function takes no       *)
(* random source, so nothing in its arguments determines them.  beta,      *)
(* phi, frequency and state_weight are forwarded unchanged and only shape  *)
(* the mean of the case-count draw; the draw being a free choice, they     *)
(* are not carried in the model.                                           *)
(***************************************************************************)
EXTENDS Integers, Sequences, FiniteSets

VARIABLES pc, args, forwarded, outcome, result

vars == <<pc, args, forwarded, outcome, result>>

(* ------------------------------ bounds -------------------------------- *)

\* longest series and longest supplied state chain
MaxLen == 2

\* largest weekly case count the engine draws
MaxCases == 1

\* p and r in percent: an inner value, probability 1, and 150, a value
\* outside [0,1]
Probs == {50, 100, 150}

\* values a caller may put in a supplied state chain; 2 is not a status
StateVals == {0, 1, 2}

Lengths == 0..MaxLen

\* the default amplitude
Amplitudes == {1}

\* the default alpha, and one below the amplitude
Alphas == {0, 1}

(* --------------------------- Python values ---------------------------- *)

\* the default of the state parameter
None == [kind |-> "None"]

PyList(s) == [kind |-> "list", items |-> s]

SeqsUpTo(S, n) == UNION {[1..k -> S] : k \in 0..n}

StateArgs == {None} \cup {PyList(s) : s \in SeqsUpTo(StateVals, MaxLen)}

ArgSets ==
    [p : Probs, r : Probs, length : Lengths, amplitude : Amplitudes,
     alpha : Alphas, state : StateArgs]

(* ----------------------------- marshalling ---------------------------- *)

NULL == [rclass |-> "NULL"]

\* robjects.IntVector: an R integer vector holding the items in order
IntVector(s) == [rclass |-> "integer", vals |-> [i \in 1..Len(s) |-> s[i]]]

\* a plausible slip: `if not state` instead of `if state is None`
MarshalState_Truthiness(state) ==
    IF state = None \/ state.items = <<>> THEN NULL ELSE IntVector(state.items)

\* state=robjects.NULL if state is None else robjects.IntVector(state)
MarshalState(state) ==
    IF state = None THEN NULL ELSE IntVector(state.items)

(* ------------------- the engine: sim_pointSource ---------------------- *)

\* a slip that inverts the probability of staying
MarkovStep_Inverted(p, r, prev, next) ==
    IF prev = 1
    THEN (next = 1 /\ p < 100) \/ (next = 0 /\ p > 0)
    ELSE (next = 0 /\ r < 100) \/ (next = 1 /\ r > 0)

\* p: probability of an outbreak at time i given one at time i-1;
\* r: probability of no outbreak at time i given none at time i-1.
\* A step is possible when its probability is not zero.
MarkovStep(p, r, prev, next) ==
    IF prev = 1
    THEN (next = 1 /\ p > 0) \/ (next = 0 /\ p < 100)
    ELSE (next = 0 /\ r > 0) \/ (next = 1 /\ r < 100)

\* an off-by-one slip: the chain is one week short
MarkovChains_OneShort(p, r, n) ==
    {c \in [1..(n - 1) -> {0, 1}] :
        \A i \in 2..(n - 1) : MarkovStep(p, r, c[i - 1], c[i])}

\* the chains of n weeks the engine can generate
MarkovChains(p, r, n) ==
    {c \in [1..n -> {0, 1}] : \A i \in 2..n : MarkovStep(p, r, c[i - 1], c[i])}

\* a slip that generates a chain although one was supplied
LatentStates_Regenerated(p, r, length, rstate) ==
    IF length >= 1 THEN MarkovChains(p, r, length) ELSE {}

\* the state chain of a run: generated over `length` weeks when none is
\* given, otherwise the given one (length is then ignored)
LatentStates(p, r, length, rstate) ==
    IF rstate = NULL
    THEN IF length >= 1 THEN MarkovChains(p, r, length) ELSE {}
    ELSE {rstate.vals}

\* what the docstring allows: alpha >= A, p and r probabilities, at least
\* one week, a state chain of outbreak / no outbreak
InContract(p, r, length, A, alpha, rstate) ==
    /\ p \in 0..100
    /\ r \in 0..100
    /\ alpha >= A
    /\ IF rstate = NULL
       THEN length >= 1
       ELSE \A i \in 1..Len(rstate.vals) : rstate.vals[i] \in {0, 1}

\* the outcomes of one engine call: the returned R list, with one observed
\* count per week of the state chain, or an R error.  Outside the
\* documented contract the engine's answer is not determined by the
\* wrapper: it may compute or raise.
sim_pointSource(p, r, length, A, alpha, rstate) ==
    UNION {{[status |-> "ok", rlist |-> [observed |-> o, state |-> c]] :
                o \in [1..Len(c) -> 0..MaxCases]} :
            c \in LatentStates(p, r, length, rstate)}
    \cup (IF InContract(p, r, length, A, alpha, rstate)
          THEN {}
          ELSE {[status |-> "error"]})

(* ------------------------- the data frame ----------------------------- *)

\* r_list_to_frame(simulated, names): one row per entry of the named
\* vectors, one column per name, under the default index 0, 1, 2, ...
r_list_to_frame(rlist, names) ==
    [index |-> [i \in 1..Len(rlist.observed) |-> i - 1],
     rows  |-> [i \in 1..Len(rlist.observed) |->
                   [c \in names |-> rlist[c][i]]]]

\* add_date_time_index_to_frame(df): row i is stamped with the i-th week
\* after the start date
add_date_time_index_to_frame(df) ==
    [df EXCEPT !.index = [i \in 1..Len(df.rows) |-> 7 * (i - 1)]]

NewName(columns, c) == IF c \in DOMAIN columns THEN columns[c] ELSE c

\* DataFrame.rename(columns=...)
rename(df, columns) ==
    [df EXCEPT !.rows = [i \in 1..Len(df.rows) |->
        [c \in {NewName(columns, k) : k \in DOMAIN df.rows[i]} |->
            df.rows[i][CHOOSE k \in DOMAIN df.rows[i] :
                           NewName(columns, k) = c]]]]

\* simulated["n_outbreak_cases"] = simulated["raw_cases"] * simulated["is_outbreak"]
WithOutbreakCases(df) ==
    [df EXCEPT !.rows = [i \in 1..Len(df.rows) |->
        [c \in DOMAIN df.rows[i] \cup {"n_outbreak_cases"} |->
            IF c = "n_outbreak_cases"
            THEN df.rows[i]["raw_cases"] * df.rows[i]["is_outbreak"]
            ELSE df.rows[i][c]]]]

\* a slip that leaves the frame under its default index
Frame_NoDateIndex(rlist) ==
    WithOutbreakCases(
        rename(r_list_to_frame(rlist, {"observed", "state"}),
               [observed |-> "raw_cases", state |-> "is_outbreak"]))

\* lines 76-82: from the engine's list to the returned frame
Frame(rlist) ==
    WithOutbreakCases(
        rename(add_date_time_index_to_frame(
                   r_list_to_frame(rlist, {"observed", "state"})),
               [observed |-> "raw_cases", state |-> "is_outbreak"]))

NoFrame == [index |-> <<>>, rows |-> <<>>]

(* ------------------------------ the run ------------------------------- *)

NoArgs ==
    [p |-> 0, r |-> 0, length |-> 0, amplitude |-> 0, alpha |-> 0,
     state |-> None]

Init ==
    /\ pc = "idle"
    /\ args = NoArgs
    /\ forwarded = NULL
    /\ outcome = "none"
    /\ result = NoFrame

\* the body of simulate_outbreaks on arguments a
Run(a) ==
    LET rstate == MarshalState(a.state) IN
    \E out \in sim_pointSource(a.p, a.r, a.length, a.amplitude, a.alpha,
                                rstate) :
        /\ pc' = "done"
        /\ args' = a
        /\ forwarded' = rstate
        /\ IF out.status = "ok"
           THEN outcome' = "returned" /\ result' = Frame(out.rlist)
           ELSE outcome' = "RRuntimeError" /\ result' = NoFrame

\* a caller invokes simulate_outbreaks
simulate_outbreaks ==
    /\ pc = "idle"
    /\ \E a \in ArgSets : Run(a)

\* the caller repeats the call with the same arguments, in the same process
simulate_again ==
    /\ pc = "done"
    /\ Run(args)

\* the caller drops the outcome
Discard ==
    /\ pc = "done"
    /\ pc' = "idle"
    /\ args' = NoArgs
    /\ forwarded' = NULL
    /\ outcome' = "none"
    /\ result' = NoFrame

Next == simulate_outbreaks \/ simulate_again \/ Discard

Spec == Init /\ [][Next]_vars

(* ------------------------------ properties ---------------------------- *)

Returned == pc = "done" /\ outcome = "returned"

Column(df, c) == [i \in 1..Len(df.rows) |-> df.rows[i][c]]

StateGiven(a) == a.state # None

\* the parameter sets the specification calls invalid
Invalid(a) ==
    \/ a.alpha < a.amplitude
    \/ a.p \notin 0..100
    \/ a.r \notin 0..100
    \/ (~StateGiven(a) /\ a.length <= 0)
    \/ (StateGiven(a) /\ \E i \in 1..Len(a.state.items) :
                            a.state.items[i] \notin {0, 1})

\* C1: a call with alpha < amplitude, p or r outside [0,1], length <= 0
\* and no state, or a state value other than 0 and 1 fails (with
\* InvalidParameter): it never returns a frame.
C1_InvalidNeverReturns ==
    (pc = "done" /\ Invalid(args)) =>
        (outcome # "returned" /\ result = NoFrame)

\* C2: in every row of a returned frame n_outbreak_cases is raw_cases
\* where is_outbreak is 1 and 0 elsewhere.
C2_OutbreakCasesMasked ==
    Returned =>
        \A i \in 1..Len(result.rows) :
            result.rows[i]["n_outbreak_cases"] =
                (IF result.rows[i]["is_outbreak"] = 1
                 THEN result.rows[i]["raw_cases"]
                 ELSE 0)

\* C3: on valid parameters the returned frame has `length` rows when no
\* state is given and len(state) rows when one is.
C3_RowCount ==
    (Returned /\ ~Invalid(args)) =>
        Len(result.rows) =
            (IF StateGiven(args) THEN Len(args.state.items) ELSE args.length)

C3_Witness ==
    /\ Returned
    /\ ~Invalid(args)
    /\ StateGiven(args)
    /\ Len(args.state.items) = 2
    /\ args.length = 1
    /\ Len(result.rows) = 2

\* C4: when a state is given, the is_outbreak column of the returned
\* frame is that sequence, entry by entry, whatever p and r are.
C4_StatePassThrough ==
    (Returned /\ StateGiven(args)) =>
        Column(result, "is_outbreak") = args.state.items

C4_Witness ==
    /\ Returned
    /\ args.state = PyList(<<0, 1>>)
    /\ args.p = 100
    /\ args.r = 100
    /\ Column(result, "is_outbreak") = <<0, 1>>

\* C5: every row of a frame returned on valid parameters has the four
\* fields mean, raw_cases, is_outbreak and n_outbreak_cases, the counts
\* non-negative integers and is_outbreak 0 or 1.
C5_FourFields ==
    (Returned /\ ~Invalid(args)) =>
        \A i \in 1..Len(result.rows) :
            /\ DOMAIN result.rows[i] =
                   {"mean", "raw_cases", "is_outbreak", "n_outbreak_cases"}
            /\ result.rows[i]["raw_cases"] \in Nat
            /\ result.rows[i]["n_outbreak_cases"] \in Nat
            /\ result.rows[i]["is_outbreak"] \in {0, 1}

\* C6: two runs with identical valid parameters return identical
\* raw_cases: the result depends on the parameters alone, not on anything
\* the process holds between the runs.
C6_SameParametersSameCases ==
    [][(Returned /\ Returned' /\ args' = args /\ ~Invalid(args)) =>
           Column(result, "raw_cases")' = Column(result, "raw_cases")]_vars

\* C7 as stated: with p = 1 and r = 1 (and otherwise valid parameters)
\* every week's is_outbreak equals the first week's.
C7_ConstantChain ==
    (Returned /\ ~Invalid(args) /\ args.p = 100 /\ args.r = 100) =>
        \A i \in 1..Len(result.rows) :
            result.rows[i]["is_outbreak"] = result.rows[1]["is_outbreak"]

\* C7 amended: with p = 1, r = 1 and no state given, every week's
\* is_outbreak equals the first week's.
C7_ConstantGeneratedChain ==
    (Returned /\ args.p = 100 /\ args.r = 100 /\ ~StateGiven(args)) =>
        \A i \in 1..Len(result.rows) :
            result.rows[i]["is_outbreak"] = result.rows[1]["is_outbreak"]

C7_Witness ==
    /\ Returned
    /\ args.p = 100
    /\ args.r = 100
    /\ ~StateGiven(args)
    /\ Len(result.rows) >= 2
    /\ result.rows[2]["is_outbreak"] = result.rows[1]["is_outbreak"]

\* C8: the returned frame has one index entry per row, the first at the
\* start date and each next one exactly 7 days after the one before.
C8_WeeklyIndex ==
    Returned =>
        /\ Len(result.index) = Len(result.rows)
        /\ \A i \in 1..Len(result.index) :
               /\ i = 1 => result.index[i] = 0
               /\ i > 1 => /\ result.index[i] = result.index[i - 1] + 7
                           /\ result.index[i] > result.index[i - 1]

C8_Witness ==
    /\ Returned
    /\ Len(result.rows) >= 2
    /\ result.index[2] = result.index[1] + 7

\* C10: the engine is handed NULL exactly when state is None; any other
\* value, the empty sequence included, is handed over as the state chain,
\* so an empty sequence gives an empty frame and never `length` rows.
C10_GivenUnlessNone ==
    pc = "done" =>
        /\ forwarded = NULL <=> args.state = None
        /\ StateGiven(args) => forwarded.vals = args.state.items
        /\ (Returned /\ ~StateGiven(args)) => Len(result.rows) = args.length
        /\ (Returned /\ args.state = PyList(<<>>)) => Len(result.rows) = 0

C10_Witness ==
    /\ Returned
    /\ args.state = PyList(<<>>)
    /\ args.length >= 1
    /\ forwarded = IntVector(<<>>)
    /\ result.rows = <<>>

====
